---- MODULE Spec2Model ----
(***************************************************************************)
(* PDx, src/src/lib.rs: PdfAnalyzer (construction, analyze and its passes, *)
(* the analysis cache) as a state machine.                                 *)
(*                                                                         *)
(* Byte strings are sequences of one-character strings.  Every PDF object  *)
(* is a record with the same fields (t: type tag, n, g: integer payloads,   *)
(* s: byte payload, d: dictionary entries in insertion order); a Reference *)
(* keeps the object number in n and the generation in g.                   *)
(*                                                                         *)
(* PdfAnalysis.page_count (document.get_pages().len()) is a read of the    *)
(* page tree that no pass and no cache entry depends on; it is left out.   *)
(***************************************************************************)
EXTENDS Integers, Sequences, FiniteSets, TLC

\* ------------------------------------------------------------- bounds
\* The analyze calls issued on the analyzer, in sequence or concurrently.
NumCallers == 2
MaxClock == 1

Callers == 1..NumCallers

\* ------------------------------------------------------------- objects
Obj(t, n, g, s, d) == [t |-> t, n |-> n, g |-> g, s |-> s, d |-> d]
Entry(k, v) == [key |-> k, val |-> v]

IntegerObj(n) == Obj("Integer", n, 0, <<>>, <<>>)
NameObj(s) == Obj("Name", 0, 0, s, <<>>)
StringObj(s) == Obj("String", 0, 0, s, <<>>)
ReferenceObj(num, gen) == Obj("Reference", num, gen, <<>>, <<>>)
DictionaryObj(d) == Obj("Dictionary", 0, 0, <<>>, d)

Digit(n) == CASE n = 0 -> "0" [] n = 1 -> "1" [] n = 2 -> "2" [] n = 3 -> "3"
              [] n = 4 -> "4" [] n = 5 -> "5" [] n = 6 -> "6" [] n = 7 -> "7"
              [] n = 8 -> "8" [] n = 9 -> "9"

\* Decimal rendering of a non-negative integer ("{}" of an integer).
RECURSIVE IntToStr(_)
IntToStr(n) == IF n < 10 THEN <<Digit(n)>>
               ELSE IntToStr(n \div 10) \o <<Digit(n % 10)>>

\* object.to_string(): the PDF surface syntax of the object.
RECURSIVE to_string(_)
RECURSIVE EntriesToString(_)
EntriesToString(d) ==
    IF d = <<>> THEN <<>>
    ELSE <<"/">> \o Head(d).key \o <<" ">> \o to_string(Head(d).val)
         \o EntriesToString(Tail(d))
to_string(o) ==
    CASE o.t = "Null" -> <<"n", "u", "l", "l">>
      [] o.t = "Integer" -> IntToStr(o.n)
      [] o.t = "Name" -> <<"/">> \o o.s
      [] o.t = "String" -> <<"(">> \o o.s \o <<")">>
      [] o.t = "Reference" -> IntToStr(o.n) \o <<" ">> \o IntToStr(o.g)
                              \o <<" ", "R">>
      [] o.t = "Dictionary" -> <<"<", "<">> \o EntriesToString(o.d)
                               \o <<">", ">">>

\* object.type_name()
type_name(o) == o.t

\* value.as_text_string(): only a String object converts to text.
as_text_string(o) ==
    IF o.t = "String" THEN [ok |-> TRUE, text |-> o.s]
    ELSE [ok |-> FALSE, text |-> <<>>]

\* ------------------------------------------------------------- digests
\* Sha256 is modelled as a collision-free digest: an injective framing of
\* the bytes fed to the hasher.  BASE64.encode is injective as well.
Sha256(bytes) == <<"sha256[">> \o bytes \o <<"]">>
BASE64(digest) == <<"b64[">> \o digest \o <<"]">>

\* ------------------------------------------------------------- object ids
\* ObjectId = (u32, u16), ordered lexicographically (BTreeMap key order).
IdLess(a, b) == a[1] < b[1] \/ (a[1] = b[1] /\ a[2] < b[2])

MinId(S) == CHOOSE a \in S : \A b \in S : a = b \/ IdLess(a, b)

\* The ids of S in ascending order: the iteration order of document.objects.
RECURSIVE SortedIds(_)
SortedIds(S) == IF S = {} THEN <<>>
                ELSE <<MinId(S)>> \o SortedIds(S \ {MinId(S)})

\* ------------------------------------------------------------- documents
Int1 == IntegerObj(1)
Int2 == IntegerObj(2)
Int12 == IntegerObj(12)
Catalog == DictionaryObj(<<Entry(<<"T", "y", "p", "e">>,
                                 NameObj(<<"C", "a", "t", "a", "l", "o", "g">>))>>)
CatalogOpenAction ==
    DictionaryObj(<<Entry(<<"T", "y", "p", "e">>,
                          NameObj(<<"C", "a", "t", "a", "l", "o", "g">>)),
                    Entry(<<"O", "p", "e", "n", "A", "c", "t", "i", "o", "n">>,
                          ReferenceObj(2, 0))>>)
JavaScriptAction ==
    DictionaryObj(<<Entry(<<"S">>,
                          NameObj(<<"J", "a", "v", "a", "S", "c", "r", "i", "p", "t">>)),
                    Entry(<<"J", "S">>, StringObj(<<"x">>))>>)

NoObjects == [i \in {} |-> Int1]

ObjectSets ==
    { NoObjects,
      (<<1, 1>> :> Int1 @@ <<2, 0>> :> Int2),
      (<<1, 0>> :> Int12),
      (<<2, 0>> :> Int12),
      (<<1, 0>> :> Catalog),
      (<<1, 0>> :> CatalogOpenAction @@ <<2, 0>> :> JavaScriptAction) }

\* An optional trailer dictionary entry (/Info, /Encrypt).
NoDict == [present |-> FALSE, d |-> <<>>]
SomeDict(d) == [present |-> TRUE, d |-> d]

TitleKey == <<"T", "i", "t", "l", "e">>
CountKey == <<"C", "o", "u", "n", "t">>

InfoTitle == SomeDict(<<Entry(TitleKey, StringObj(<<"t">>))>>)
InfoTitleCount == SomeDict(<<Entry(TitleKey, StringObj(<<"t">>)),
                             Entry(CountKey, IntegerObj(3))>>)

FilterKey == <<"F", "i", "l", "t", "e", "r">>
LengthKey == <<"L", "e", "n", "g", "t", "h">>
StandardName == <<"S", "t", "a", "n", "d", "a", "r", "d">>

EncryptStandard128 == SomeDict(<<Entry(FilterKey, NameObj(StandardName)),
                                 Entry(LengthKey, IntegerObj(128))>>)

Doc(objs, info, enc) ==
    [version |-> "1.4", objects |-> objs,
     trailer |-> [Info |-> info, Encrypt |-> enc]]

\* Document::new()
EmptyDocument == [version |-> "1.4", objects |-> NoObjects,
                  trailer |-> [Info |-> NoDict, Encrypt |-> NoDict]]

Documents ==
    { Doc(o, NoDict, NoDict) : o \in ObjectSets }
    \cup { Doc((<<1, 0>> :> Catalog), InfoTitle, NoDict),
           Doc((<<1, 0>> :> Catalog), InfoTitleCount, EncryptStandard128) }

\* A file on disk: either parses as a PDF into a document, or does not.
NotAPdf == [parsable |-> FALSE, doc |-> EmptyDocument]
Files == { [parsable |-> TRUE, doc |-> d] : d \in Documents } \cup {NotAPdf}

\* Document::load(path)
DocumentLoad(file) ==
    IF file.parsable THEN [ok |-> TRUE, doc |-> file.doc]
    ELSE [ok |-> FALSE, doc |-> EmptyDocument]

\* Config::default(): thread_count is num_cpus::get() and temp_dir is
\* std::env::temp_dir(), both read from the machine the program runs on.
DefaultConfig(num_cpus, temp_dir) ==
    [analysis_depth |-> 2, security_level |-> "Medium",
     output_format |-> "Text", thread_count |-> num_cpus,
     temp_dir |-> temp_dir]

\* The machines the program runs on: their CPU counts and temp directory.
CpuCounts == {1, 4}
TempDirs == {"/tmp"}

Configs == { DefaultConfig(n, t) : n \in CpuCounts, t \in TempDirs }


\* ------------------------------------------------------------- passes
EmptyMap == [k \in {} |-> <<>>]

\* extract_metadata: every /Info entry whose value converts to text; an
\* entry whose conversion fails is skipped.
RECURSIVE InsertTextEntries(_, _)
InsertTextEntries(entries, metadata) ==
    IF entries = <<>> THEN metadata
    ELSE LET e == Head(entries)
             r == as_text_string(e.val)
         IN InsertTextEntries(Tail(entries),
                IF r.ok THEN (e.key :> r.text) @@ metadata ELSE metadata)

extract_metadata(doc) ==
    IF doc.trailer.Info.present
    THEN InsertTextEntries(doc.trailer.Info.d, EmptyMap)
    ELSE EmptyMap

\* hash_object
hash_object(object) == BASE64(Sha256(to_string(object)))

\* The closure of analyze_objects' map: the ObjectInfo of one object.
ObjectInfoWrongHash(doc, id) ==
    [id |-> id,
     type_name |-> type_name(doc.objects[id]),
     size |-> Len(to_string(doc.objects[id])),
     hash |-> hash_object(doc.objects[MinId(DOMAIN doc.objects)])]

ObjectInfoOf(doc, id) ==
    [id |-> id,
     type_name |-> type_name(doc.objects[id]),
     size |-> Len(to_string(doc.objects[id])),
     hash |-> hash_object(doc.objects[id])]

\* extract_javascript / extract_image: not implemented, always None.
NoJavaScriptInfo == [some |-> FALSE, location |-> <<>>, size |-> 0,
                     hash |-> <<>>, suspicious |-> FALSE]
NoImageInfo == [some |-> FALSE, id |-> <<>>, format |-> <<>>,
                dimensions |-> <<0, 0>>, size |-> 0, hash |-> <<>>]

extract_javascript(object) == NoJavaScriptInfo
extract_image(object) == NoImageInfo

\* find_javascript / extract_images: one entry per object for which the
\* extractor returns Some, in object order.
RECURSIVE CollectSome(_, _, _)
CollectSome(doc, ids, extractor) ==
    IF ids = <<>> THEN <<>>
    ELSE (IF extractor[Head(ids)].some THEN <<extractor[Head(ids)]>> ELSE <<>>)
         \o CollectSome(doc, Tail(ids), extractor)

find_javascript(doc) ==
    CollectSome(doc, SortedIds(DOMAIN doc.objects),
                [id \in DOMAIN doc.objects |-> extract_javascript(doc.objects[id])])

extract_images(doc) ==
    CollectSome(doc, SortedIds(DOMAIN doc.objects),
                [id \in DOMAIN doc.objects |-> extract_image(doc.objects[id])])

\* verify_signatures: not implemented, always empty.
verify_signatures(doc) == <<>>

\* document.is_encrypted(): the trailer has an /Encrypt entry.
is_encrypted(doc) == doc.trailer.Encrypt.present

NoEncryption == [some |-> FALSE, method |-> <<>>, strength |-> 0,
                 encrypted_metadata |-> FALSE]

analyze_encryption(doc) ==
    IF ~is_encrypted(doc) THEN NoEncryption
    ELSE [some |-> TRUE, method |-> <<"A", "E", "S">>, strength |-> 256,
          encrypted_metadata |-> TRUE]

\* calculate_document_hash: one hasher, fed every object's to_string() in
\* the map's iteration order, then finalized and base64-encoded.
RECURSIVE HasherUpdateAll(_, _, _)
HasherUpdateAll(hasher, doc, ids) ==
    IF ids = <<>> THEN hasher
    ELSE HasherUpdateAll(hasher \o to_string(doc.objects[Head(ids)]),
                         doc, Tail(ids))

calculate_document_hash(doc) ==
    BASE64(Sha256(HasherUpdateAll(<<>>, doc, SortedIds(DOMAIN doc.objects))))

\* rayon's collect(): the workers' results in the iteration order of the map.
RECURSIVE CollectInOrder(_, _)
CollectInOrder(results, ids) ==
    IF ids = <<>> THEN <<>>
    ELSE <<results[Head(ids)]>> \o CollectInOrder(results, Tail(ids))


\* ------------------------------------------------------------- state
VARIABLES
    analyzer,     \* the PdfAnalyzer: constructed, config, document, created
    input,        \* the file handed to PdfAnalyzer::load
    load_result,  \* "NotCalled", "Ok" or "ErrPdf": what load returned
    cache,        \* analyzer.cache: fingerprint -> CachedData
    lock,         \* the caller holding the cache's write lock, 0 if none
    pc,           \* per analyze call: where the call stands
    analysis,     \* per analyze call: the PdfAnalysis being built / returned
    pending,      \* per analyze call: objects no worker has classified yet
    partial,      \* per analyze call: the workers' results, by object
    cache_key,    \* per analyze call: the local cache_key
    now           \* the last time Utc::now() returned

vars == <<analyzer, input, load_result, cache, lock, pc, analysis, pending,
          partial, cache_key, now>>

\* Utc::now(): the clock never runs backwards.
UtcNow == now..MaxClock

NoAnalyzer == [constructed |-> FALSE, config |-> DefaultConfig(1, "/tmp"),
               document |-> EmptyDocument, created |-> 0]

NoKey == <<>>

EmptyAnalysis == [version |-> "", metadata |-> EmptyMap, objects |-> <<>>,
                  javascript |-> <<>>, images |-> <<>>, signatures |-> <<>>,
                  encryption |-> NoEncryption, timestamp |-> 0]

\* The .await points of analyze before the cache lock is held: the places
\* where the caller can drop the future.
AwaitPoints == {"javascript", "images", "signatures", "encryption", "lock"}

Init ==
    /\ analyzer = NoAnalyzer
    /\ input = NotAPdf
    /\ load_result = "NotCalled"
    /\ cache = EmptyMap
    /\ lock = 0
    /\ pc = [p \in Callers |-> "idle"]
    /\ analysis = [p \in Callers |-> EmptyAnalysis]
    /\ pending = [p \in Callers |-> {}]
    /\ partial = [p \in Callers |-> EmptyMap]
    /\ cache_key = [p \in Callers |-> NoKey]
    /\ now = 0

\* ------------------------------------------------------------- construction
\* PdfAnalyzer::new
New(config) ==
    /\ ~analyzer.constructed
    /\ load_result = "NotCalled"
    /\ now' \in UtcNow
    /\ analyzer' = [constructed |-> TRUE, config |-> config,
                    document |-> EmptyDocument, created |-> now']
    /\ UNCHANGED <<input, load_result, cache, lock, pc, analysis, pending,
                   partial, cache_key>>

LoadLenient(file, config) ==
    /\ ~analyzer.constructed
    /\ load_result = "NotCalled"
    /\ input' = file
    /\ load_result' = IF DocumentLoad(file).ok THEN "Ok" ELSE "ErrPdf"
    /\ now' \in UtcNow
    /\ analyzer' = [constructed |-> TRUE, config |-> config,
                    document |-> DocumentLoad(file).doc, created |-> now']
    /\ UNCHANGED <<cache, lock, pc, analysis, pending, partial, cache_key>>

\* PdfAnalyzer::load
Load(file, config) ==
    /\ ~analyzer.constructed
    /\ load_result = "NotCalled"
    /\ input' = file
    /\ IF DocumentLoad(file).ok
       THEN /\ load_result' = "Ok"
            /\ now' \in UtcNow
            /\ analyzer' = [constructed |-> TRUE, config |-> config,
                            document |-> DocumentLoad(file).doc,
                            created |-> now']
       ELSE /\ load_result' = "ErrPdf"
            /\ UNCHANGED <<analyzer, now>>
    /\ UNCHANGED <<cache, lock, pc, analysis, pending, partial, cache_key>>

\* ------------------------------------------------------------- analyze
BeginReserveEntry(p) ==
    /\ analyzer.constructed
    /\ pc[p] = "idle"
    /\ analysis' = [analysis EXCEPT ![p].version = analyzer.document.version,
                                    ![p].metadata = extract_metadata(analyzer.document)]
    /\ pending' = [pending EXCEPT ![p] = DOMAIN analyzer.document.objects]
    /\ pc' = [pc EXCEPT ![p] = "objects"]
    /\ cache' = (calculate_document_hash(analyzer.document) :>
                    [hash |-> calculate_document_hash(analyzer.document),
                     timestamp |-> now, metadata |-> EmptyMap]) @@ cache
    /\ UNCHANGED <<analyzer, input, load_result, lock, partial, cache_key, now>>

\* analyze, lines 178-182: version, metadata, and the fan-out of
\* analyze_objects over the document's objects.
Begin(p) ==
    /\ analyzer.constructed
    /\ pc[p] = "idle"
    /\ analysis' = [analysis EXCEPT ![p].version = analyzer.document.version,
                                    ![p].metadata = extract_metadata(analyzer.document)]
    /\ pending' = [pending EXCEPT ![p] = DOMAIN analyzer.document.objects]
    /\ pc' = [pc EXCEPT ![p] = "objects"]
    /\ UNCHANGED <<analyzer, input, load_result, cache, lock, partial,
                   cache_key, now>>

\* One worker of analyze_objects classifies one object.
Classify(p, id) ==
    /\ pc[p] = "objects"
    /\ id \in pending[p]
    /\ partial' = [partial EXCEPT ![p] = (id :> ObjectInfoOf(analyzer.document, id)) @@ @]
    /\ pending' = [pending EXCEPT ![p] = @ \ {id}]
    /\ UNCHANGED <<analyzer, input, load_result, cache, lock, pc, analysis,
                   cache_key, now>>

\* analyze_objects: collect() once every object is classified.
CollectObjects(p) ==
    /\ pc[p] = "objects"
    /\ pending[p] = {}
    /\ analysis' = [analysis EXCEPT ![p].objects =
                        CollectInOrder(partial[p], SortedIds(DOMAIN partial[p]))]
    /\ pc' = [pc EXCEPT ![p] = "javascript"]
    /\ UNCHANGED <<analyzer, input, load_result, cache, lock, pending,
                   partial, cache_key, now>>

FindJavascript(p) ==
    /\ pc[p] = "javascript"
    /\ analysis' = [analysis EXCEPT ![p].javascript = find_javascript(analyzer.document)]
    /\ pc' = [pc EXCEPT ![p] = "images"]
    /\ UNCHANGED <<analyzer, input, load_result, cache, lock, pending,
                   partial, cache_key, now>>

ExtractImages(p) ==
    /\ pc[p] = "images"
    /\ analysis' = [analysis EXCEPT ![p].images = extract_images(analyzer.document)]
    /\ pc' = [pc EXCEPT ![p] = "signatures"]
    /\ UNCHANGED <<analyzer, input, load_result, cache, lock, pending,
                   partial, cache_key, now>>

VerifySignatures(p) ==
    /\ pc[p] = "signatures"
    /\ analysis' = [analysis EXCEPT ![p].signatures = verify_signatures(analyzer.document)]
    /\ pc' = [pc EXCEPT ![p] = "encryption"]
    /\ UNCHANGED <<analyzer, input, load_result, cache, lock, pending,
                   partial, cache_key, now>>

\* analyze, lines 186-191: encryption, timestamp, then the cache key.
AnalyzeEncryption(p) ==
    /\ pc[p] = "encryption"
    /\ now' \in UtcNow
    /\ analysis' = [analysis EXCEPT ![p].encryption = analyze_encryption(analyzer.document),
                                    ![p].timestamp = now']
    /\ cache_key' = [cache_key EXCEPT ![p] = calculate_document_hash(analyzer.document)]
    /\ pc' = [pc EXCEPT ![p] = "lock"]
    /\ UNCHANGED <<analyzer, input, load_result, cache, lock, pending,
                   partial>>

\* self.cache.write().await
AcquireWrite(p) ==
    /\ pc[p] = "lock"
    /\ lock = 0
    /\ lock' = p
    /\ pc' = [pc EXCEPT ![p] = "insert"]
    /\ UNCHANGED <<analyzer, input, load_result, cache, analysis, pending,
                   partial, cache_key, now>>

CacheInsertPerCall(p) ==
    /\ pc[p] = "insert"
    /\ lock = p
    /\ now' \in UtcNow
    /\ cache' = ((cache_key[p] \o IntToStr(analysis[p].timestamp)) :>
                    [hash |-> calculate_document_hash(analyzer.document),
                     timestamp |-> now',
                     metadata |-> analysis[p].metadata]) @@ cache
    /\ lock' = 0
    /\ pc' = [pc EXCEPT ![p] = "done"]
    /\ UNCHANGED <<analyzer, input, load_result, analysis, pending, partial,
                   cache_key>>

\* analyze, lines 193-199: insert under the write lock, return Ok(analysis);
\* the guard is dropped on return.
CacheInsert(p) ==
    /\ pc[p] = "insert"
    /\ lock = p
    /\ now' \in UtcNow
    /\ cache' = (cache_key[p] :>
                    [hash |-> calculate_document_hash(analyzer.document),
                     timestamp |-> now',
                     metadata |-> analysis[p].metadata]) @@ cache
    /\ lock' = 0
    /\ pc' = [pc EXCEPT ![p] = "done"]
    /\ UNCHANGED <<analyzer, input, load_result, analysis, pending, partial,
                   cache_key>>

\* The caller drops the analyze future at an await point.
Abandon(p) ==
    /\ pc[p] \in AwaitPoints
    /\ pc' = [pc EXCEPT ![p] = "abandoned"]
    /\ UNCHANGED <<analyzer, input, load_result, cache, lock, analysis,
                   pending, partial, cache_key, now>>

Next ==
    \/ \E c \in Configs : New(c)
    \/ \E f \in Files, c \in Configs : Load(f, c)
    \/ \E p \in Callers : Begin(p)
    \/ \E p \in Callers : \E id \in pending[p] : Classify(p, id)
    \/ \E p \in Callers : CollectObjects(p)
    \/ \E p \in Callers : FindJavascript(p)
    \/ \E p \in Callers : ExtractImages(p)
    \/ \E p \in Callers : VerifySignatures(p)
    \/ \E p \in Callers : AnalyzeEncryption(p)
    \/ \E p \in Callers : AcquireWrite(p)
    \/ \E p \in Callers : CacheInsert(p)
    \/ \E p \in Callers : Abandon(p)

Spec == Init /\ [][Next]_vars

TypeOK ==
    /\ lock \in 0..NumCallers
    /\ now \in 0..MaxClock
    /\ load_result \in {"NotCalled", "Ok", "ErrPdf"}


\* ------------------------------------------------------------- claims
\* The value of key in a dictionary's entries, Null's record if absent.
RECURSIVE DictGet(_, _)
DictGet(d, key) ==
    IF d = <<>> THEN Obj("Null", 0, 0, <<>>, <<>>)
    ELSE IF Head(d).key = key THEN Head(d).val ELSE DictGet(Tail(d), key)

\* A call that is running its classification passes.
InFlightPass(p) ==
    pc[p] \in {"objects", "javascript", "images", "signatures", "encryption"}

\* A call whose analyze_objects has returned.
ObjectsDone(p) ==
    pc[p] \in {"javascript", "images", "signatures", "encryption", "lock",
               "insert", "done"}

\* C1: calls on the same document that run together execute one
\* classification pass between them, and the calls that have returned hold
\* the same result.
C1_SinglePassPerFingerprint ==
    /\ Cardinality({p \in Callers : InFlightPass(p)}) <= 1
    /\ \A p, q \in Callers :
         (pc[p] = "done" /\ pc[q] = "done") => analysis[p] = analysis[q]

\* C2: the cache changes only by the insert of a call whose passes have all
\* completed, the inserted entry carries the complete metadata, every entry
\* of the cache is complete, and a call that is abandoned leaves the cache
\* as it was.
C2_NoPartialCacheEntry ==
    [][ /\ (cache' # cache =>
              \E p \in Callers :
                 /\ pc[p] = "insert" /\ pc'[p] = "done"
                 /\ analysis[p].metadata = extract_metadata(analyzer.document)
                 /\ Len(analysis[p].objects)
                      = Cardinality(DOMAIN analyzer.document.objects)
                 /\ cache_key[p] \in DOMAIN cache'
                 /\ cache'[cache_key[p]].metadata = analysis[p].metadata)
        /\ (\A k \in DOMAIN cache' :
              cache'[k].metadata = extract_metadata(analyzer'.document))
        /\ (\A p \in Callers :
              (pc'[p] = "abandoned" /\ pc[p] # "abandoned") => cache' = cache)
      ]_vars

C2_Witness ==
    /\ \E p \in Callers : pc[p] = "abandoned"
    /\ \E k \in DOMAIN cache : cache[k].metadata # EmptyMap

\* C3: the fingerprint a call computes differs from the fingerprint of any
\* other document exactly when that document's (ObjectId, content) set
\* differs from the analyzed document's.
C3_FingerprintSeparatesObjectSets ==
    \A p \in Callers :
       cache_key[p] # NoKey =>
          \A d \in Documents :
             (d.objects # analyzer.document.objects)
                <=> (calculate_document_hash(d) # cache_key[p])

\* The per-object hashes of a document, concatenated in ascending id order.
RECURSIVE ObjectHashesInOrder(_, _)
ObjectHashesInOrder(doc, ids) ==
    IF ids = <<>> THEN <<>>
    ELSE hash_object(doc.objects[Head(ids)])
         \o ObjectHashesInOrder(doc, Tail(ids))

\* C4: the fingerprint a call computes is the digest of the document's
\* per-object hashes taken in ascending ObjectId order.
C4_FingerprintIsDigestOfObjectHashes ==
    \A p \in Callers :
       cache_key[p] # NoKey =>
          cache_key[p] =
             BASE64(Sha256(ObjectHashesInOrder(analyzer.document,
                        SortedIds(DOMAIN analyzer.document.objects))))

\* The objects a Catalog's /OpenAction points to that are JavaScript actions.
OpenActionJavaScript(doc) ==
    { id \in DOMAIN doc.objects :
        \E c \in DOMAIN doc.objects :
           /\ doc.objects[c].t = "Dictionary"
           /\ DictGet(doc.objects[c].d, <<"T", "y", "p", "e">>)
                = NameObj(<<"C", "a", "t", "a", "l", "o", "g">>)
           /\ DictGet(doc.objects[c].d,
                      <<"O", "p", "e", "n", "A", "c", "t", "i", "o", "n">>)
                = ReferenceObj(id[1], id[2])
           /\ doc.objects[id].t = "Dictionary"
           /\ DictGet(doc.objects[id].d, <<"S">>)
                = NameObj(<<"J", "a", "v", "a", "S", "c", "r", "i", "p", "t">>) }

\* C5: a returned analysis lists exactly one JavaScript entry, for the
\* action object, when the Catalog's /OpenAction points to a JavaScript
\* action, and none when the document has no JavaScript action.
C5_JavaScriptInventory ==
    \A p \in Callers :
       pc[p] = "done" =>
          IF OpenActionJavaScript(analyzer.document) # {}
          THEN /\ Len(analysis[p].javascript) = 1
               /\ \E id \in OpenActionJavaScript(analyzer.document) :
                     analysis[p].javascript[1].hash
                        = hash_object(analyzer.document.objects[id])
          ELSE analysis[p].javascript = <<>>

\* C6: the encryption summary of a returned analysis is None exactly when
\* the trailer has no /Encrypt entry, and otherwise reports the filter name
\* and the key length that entry declares.
C6_EncryptionSummaryIsDeclared ==
    \A p \in Callers :
       pc[p] = "done" =>
          LET e == analysis[p].encryption
              enc == analyzer.document.trailer.Encrypt
          IN /\ e.some <=> enc.present
             /\ e.some => /\ e.method = DictGet(enc.d, FilterKey).s
                          /\ e.strength = DictGet(enc.d, LengthKey).n

\* C7: every /Info entry of the document is visible in a returned analysis:
\* PdfAnalysis has no anomaly list, so an entry is visible only as a
\* metadata key, and an entry whose conversion failed must be one too.
C7_NoInfoEntryDropped ==
    \A p \in Callers :
       pc[p] = "done" =>
          \A i \in 1..Len(analyzer.document.trailer.Info.d) :
             analyzer.document.trailer.Info.d[i].key
                \in DOMAIN analysis[p].metadata

\* C8: when load was given a file that does not parse, it returned
\* PdxError::Pdf, no analyzer exists, no analyze call has started and the
\* cache has no entry.
C8_LoadFailureConstructsNothing ==
    (load_result # "NotCalled" /\ ~DocumentLoad(input).ok) =>
       /\ load_result = "ErrPdf"
       /\ ~analyzer.constructed
       /\ \A p \in Callers : pc[p] = "idle"
       /\ cache = EmptyMap

C8_Witness ==
    /\ load_result = "ErrPdf"
    /\ input = NotAPdf

\* One ObjectInfo per object of the document, each with the object's own
\* id and hash.
OneInfoPerObject(p) ==
    LET objs == analysis[p].objects
        doc == analyzer.document
    IN /\ Len(objs) = Cardinality(DOMAIN doc.objects)
       /\ \A id \in DOMAIN doc.objects :
             \E i \in 1..Len(objs) : objs[i].id = id
       /\ \A i \in 1..Len(objs) :
             /\ objs[i].id \in DOMAIN doc.objects
             /\ objs[i].hash = hash_object(doc.objects[objs[i].id])

\* C9: once analyze_objects has returned, its result has exactly one
\* ObjectInfo per object with that object's id and hash, whatever order the
\* workers ran in; and a worker's step writes only its call's results.
C9_OneObjectInfoPerObject ==
    [][ /\ \A p \in Callers : ObjectsDone(p)' => OneInfoPerObject(p)'
        /\ \A p \in Callers :
              (pc[p] = "objects" /\ partial'[p] # partial[p]) =>
                 /\ UNCHANGED <<analyzer, input, load_result, cache, lock,
                                analysis, cache_key, now>>
                 /\ \A q \in Callers \ {p} :
                       partial'[q] = partial[q] /\ pending'[q] = pending[q]
      ]_vars

C9_Witness ==
    \E p \in Callers :
       /\ ObjectsDone(p)
       /\ Len(analysis[p].objects) = 2
       /\ analysis[p].objects[1].hash # analysis[p].objects[2].hash

\* C10: after every step the cache has at most one entry, each entry is
\* keyed by its own hash, which is the fingerprint of the analyzer's
\* document; and once constructed, the analyzer's document and config never
\* change.
C10_CacheKeyedByFingerprint ==
    [][ /\ Cardinality(DOMAIN cache') <= 1
        /\ \A k \in DOMAIN cache' :
              /\ k = cache'[k].hash
              /\ k = calculate_document_hash(analyzer'.document)
        /\ analyzer.constructed =>
              /\ analyzer'.document = analyzer.document
              /\ analyzer'.config = analyzer.config
      ]_vars

C10_Witness ==
    /\ \A p \in Callers : pc[p] = "done"
    /\ Cardinality(DOMAIN cache) = 1
    /\ \E p \in Callers : \E k \in DOMAIN cache :
          cache[k].timestamp > analysis[p].timestamp

====
